---- MODULE Spec2Model ----
(***************************************************************************)
(* The edit session of the drawing-analysis workbench (App component):     *)
(* the React state of the component, its event handlers, and the           *)
(* asynchronous handlers (startAnalysis, handleSendChatMessage,            *)
(* handleRegenerateDrawing) split at their awaits.  A handler that runs    *)
(* without awaiting is one action; the state updates it queues are applied *)
(* together, as React batches them.  A handler that awaits keeps what its  *)
(* closure captured at invocation in a task record.                        *)
(***************************************************************************)
EXTENDS Integers, Sequences, FiniteSets, TLC

\* ---------------------------------------------------------------- bounds
MaxOps == 5       \* user gestures (clicks, submits) in one run
MaxDetect == 2    \* most findings one detection pass returns
MaxBulk == 2      \* most findings one bulk_add_errors call carries
MaxComponents == 1  \* most components analyzeIsometric returns
MaxUpdateFields == 1  \* most fields of a finding the updates of a chat edit carry

\* ------------------------------------------------------ program constants
UPLOAD == 1
RECOGNITION == 2
IDENTIFY_ERRORS == 3
GENERATE_UPDATED == 4

VARIABLES
  state,               \* AnalysisState
  currentStep,         \* WorkflowStep
  stepStates,          \* per-step 'idle' | 'loading' | 'completed'
  chatMessages,        \* transcript
  isStreamingChat,
  chatInstanceRef,     \* TRUE when chatInstanceRef.current is a Chat
  pendingChatActions,  \* Pending Action Queue
  editSession,         \* EditSession
  isRegenerating,
  analysisTasks,       \* startAnalysis invocations that are awaiting
  chatTasks,           \* handleSendChatMessage invocations that are awaiting
  regenTasks,          \* handleRegenerateDrawing invocations that are awaiting
  isEditMode,          \* the modal is open
  editingError,        \* the finding the modal was opened on, or null
  formData,            \* the form of ErrorEditModal, null while it is empty
  currentView,         \* 'analysis' | 'info'
  hash,                \* window.location.hash
  fileReaders,         \* FileReaders whose onloadend has not fired yet
  lastOp,              \* the handler that ran last and how it ended
  ops                  \* user gestures so far

vars == <<state, currentStep, stepStates, chatMessages, isStreamingChat,
          chatInstanceRef, pendingChatActions, editSession, isRegenerating,
          analysisTasks, chatTasks, regenTasks, isEditMode, editingError,
          formData, currentView, hash, fileReaders, lastOp, ops>>

\* the state of the modal, and the state of the navigation
modal == <<isEditMode, editingError, formData>>

page == <<currentView, hash>>

\* ------------------------------------------------------------ data model
\* A nullable value is a sequence: <<>> is null, <<v>> is v.
Null == <<>>

\* DesignError.  description stands for all the free-text fields (category,
\* description, recommendation, ...); createdBy "none" is an absent field.
DesignError(id, description, isNew, isModified, createdBy) ==
  [id |-> id, description |-> description, isNew |-> isNew,
   isModified |-> isModified, createdBy |-> createdBy]

\* the texts a finding can carry: the one detection wrote, or one typed later
Descriptions == {"detected", "typed"}

\* ChangeAction
ChangeAction(id, type, targetId, beforeState, afterState, source) ==
  [id |-> id, type |-> type, targetId |-> targetId,
   beforeState |-> beforeState, afterState |-> afterState, source |-> source]

\* PendingErrorAction
PendingErrorAction(id, type, errors) ==
  [id |-> id, type |-> type, errors |-> errors]

\* ChatMessage; confirmed is "undefined" | "true" | "false", actionId 0 is absent
ChatMessage(role, actionId, confirmed) ==
  [role |-> role, actionId |-> actionId, confirmed |-> confirmed]

\* what lastOp records: the handler, the identifier it was called with (0
\* when it takes none) and how it ended
OpOn(name, arg, out) == [op |-> name, arg |-> arg, out |-> out]

Op(name, out) == OpOn(name, 0, out)

Range(s) == {s[i] : i \in DOMAIN s}

Ids(errs) == {errs[i].id : i \in DOMAIN errs}

\* Array.prototype.find(e => e.id === id): the first match, or null
FindById(s, id) ==
  LET hits == {i \in DOMAIN s : s[i].id = id}
  IN  IF hits = {} THEN Null
      ELSE <<s[CHOOSE i \in hits : \A j \in hits : i <= j]>>

\* Array.prototype.filter(e => e.id !== id)
FilterOutId(s, id) ==
  LET Keep(e) == e.id # id IN SelectSeq(s, Keep)

\* Array.prototype.map(e => e.id === id ? repl : e)
MapReplace(s, id, repl) ==
  [i \in DOMAIN s |-> IF s[i].id = id THEN repl ELSE s[i]]

\* the empty form of ErrorEditModal, with a generated id
EmptyForm(id) == DesignError(id, "typed", TRUE, FALSE, "user")

EmptySession ==
  [originalErrors |-> <<>>, currentErrors |-> <<>>,
   originalComponents |-> <<>>, currentComponents |-> <<>>,
   changeLog |-> <<>>, hasUnsavedChanges |-> FALSE]

EmptyState ==
  [originalImage |-> FALSE, recognizedComponents |-> <<>>,
   detectedErrors |-> <<>>, updatedImage |-> Null, annotatedImage |-> Null,
   isProcessing |-> FALSE, error |-> "null"]

IdleSteps ==
  [recognition |-> "idle", errorDetection |-> "idle", generation |-> "idle"]

\* an identifier that no finding has, and one that no change action has
\* (generated identifiers are numbered from 1)
UnknownErrorId == 0

UnknownChangeId == 0

\* remove the i-th element of a sequence
RemoveAt(s, i) == SubSeq(s, 1, i - 1) \o SubSeq(s, i + 1, Len(s))

\* ------------------------------------------------------------ identifiers
\* generateId and uuidv4 return identifiers that are in use nowhere.  The
\* three kinds of identifier (finding, change action, pending action) are
\* never compared with each other, so each kind is numbered on its own, and
\* a new one is the smallest number in use nowhere in the state.
ImageIds(img) == IF img = Null THEN {} ELSE Ids(img[1])

UsedErrorIds ==
  Ids(state.detectedErrors) \cup ImageIds(state.annotatedImage)
    \cup ImageIds(state.updatedImage)
    \cup Ids(editSession.originalErrors) \cup Ids(editSession.currentErrors)
    \cup UNION {Ids(c.beforeState) \cup Ids(c.afterState) :
                  c \in Range(editSession.changeLog)}
    \cup UNION {Ids(a.errors) : a \in Range(pendingChatActions)}
    \cup UNION {Ids(t.errors) \cup ImageIds(t.annotated) : t \in Range(analysisTasks)}
    \cup UNION {Ids(t.currentErrors) : t \in Range(chatTasks)}
    \cup UNION {Ids(t.modifiedErrors) : t \in Range(regenTasks)}
    \cup Ids(formData) \cup Ids(editingError)

\* the k-th smallest element of a set of numbers
Nth(S, k) == CHOOSE x \in S : Cardinality({y \in S : y < x}) = k - 1

\* n new identifiers, none of them in used
NewIds(used, n) ==
  LET free == (1..(Cardinality(used) + n)) \ used
  IN  [k \in 1..n |-> Nth(free, k)]

NewErrorIds(n) == NewIds(UsedErrorIds, n)

NewChangeIds(n) == NewIds(Ids(editSession.changeLog), n)

UsedActionIds ==
  Ids(pendingChatActions) \cup {m.actionId : m \in Range(chatMessages)}

NewActionId == NewIds(UsedActionIds, 1)[1]

\* the hashes the navigation and the links of the Layout set; the page can be
\* opened with any of them
Hashes == {"", "#/", "#/info"}

\* the view of a hash: the initializer of currentView and handleHashChange
ViewOf(h) == IF h = "#/info" THEN "info" ELSE "analysis"

\* the state of the App after its first render
Init ==
  /\ state = EmptyState
  /\ currentStep = UPLOAD
  /\ stepStates = IdleSteps
  /\ chatMessages = <<>>
  /\ isStreamingChat = FALSE
  /\ chatInstanceRef = FALSE
  /\ pendingChatActions = <<>>
  /\ editSession = EmptySession
  /\ isRegenerating = FALSE
  /\ analysisTasks = <<>>
  /\ chatTasks = <<>>
  /\ regenTasks = <<>>
  /\ isEditMode = FALSE
  /\ editingError = Null
  /\ formData = Null
  /\ hash \in Hashes
  /\ currentView = ViewOf(hash)
  /\ fileReaders = 0
  /\ lastOp = Op("init", "ok")
  /\ ops = 0

\* ------------------------------------------------------------- rendering
\* what the JSX renders decides which handlers a user can reach; with
\* currentView 'info' the App renders the InfoPage and nothing else
AnalysisPageShown == currentView = "analysis"
PanelShown == state.originalImage
FindingsShown == PanelShown /\ stepStates.errorDetection = "completed"
RegenerateSectionShown == FindingsShown /\ editSession.hasUnsavedChanges
StartShown ==
  \/ state.originalImage /\ ~state.isProcessing /\ currentStep = UPLOAD
  \/ state.error = "retryable"
ResetShown ==
  \/ state.error # "null"
  \/ state.originalImage /\ ~state.isProcessing /\ currentStep = UPLOAD
  \/ PanelShown /\ state.updatedImage # Null

\* ------------------------------------------------- upload, analysis, reset
\* the file input is rendered while there is no original image
FileInputShown == ~state.originalImage

\* handleFileUpload: a file is chosen and reader.readAsDataURL(file) is
\* called; the handler returns with the read pending
handleFileUpload ==
  /\ ops < MaxOps
  /\ ops' = ops + 1
  /\ AnalysisPageShown
  /\ UNCHANGED <<modal, page>>
  /\ FileInputShown
  /\ fileReaders' = fileReaders + 1
  /\ lastOp' = Op("handleFileUpload", "reading")
  /\ UNCHANGED <<state, currentStep, stepStates, chatMessages, isStreamingChat,
                 chatInstanceRef, pendingChatActions, editSession,
                 isRegenerating, analysisTasks, chatTasks, regenTasks>>

\* reader.onloadend fires, after a read that succeeded (reader.result is the
\* data URL) or one that failed or was aborted (reader.result is null):
\* reader.result is stored as the image and the error cleared
FileLoaded ==
  /\ UNCHANGED <<ops, modal, page>>
  /\ fileReaders > 0
  /\ fileReaders' = fileReaders - 1
  /\ \E result \in BOOLEAN :
       /\ state' = [state EXCEPT !.originalImage = result, !.error = "null"]
       /\ lastOp' = Op("handleFileUpload", IF result THEN "loaded" ELSE "noImage")
  /\ UNCHANGED <<currentStep, stepStates, chatMessages, isStreamingChat,
                 chatInstanceRef, pendingChatActions, editSession,
                 isRegenerating, analysisTasks, chatTasks, regenTasks>>

\* startAnalysis up to its first await (analyzeIsometric)
startAnalysis ==
  /\ ops < MaxOps
  /\ ops' = ops + 1
  /\ AnalysisPageShown
  /\ UNCHANGED <<modal, page, fileReaders>>
  /\ StartShown
  /\ state.originalImage
  /\ state' = [state EXCEPT !.isProcessing = TRUE, !.error = "null"]
  /\ stepStates' = [IdleSteps EXCEPT !.recognition = "loading"]
  /\ currentStep' = RECOGNITION
  /\ analysisTasks' = Append(analysisTasks,
        [pc |-> "recognition", components |-> <<>>, errors |-> <<>>,
         annotated |-> Null])
  /\ lastOp' = Op("startAnalysis", "started")
  /\ UNCHANGED <<chatMessages, isStreamingChat, chatInstanceRef,
                 pendingChatActions, editSession, isRegenerating, chatTasks,
                 regenTasks>>

\* the messages the catch block of startAnalysis can store, told apart by
\* what the JSX asks of them: "retryable" contains 'overloaded',
\* 'unavailable' or 'try again' and is rendered with the Retry button,
\* "notRetryable" is rendered without it
AnalysisErrors == {"retryable", "notRetryable"}

\* the catch block of startAnalysis
AnalysisCatch(i) ==
  /\ \E error \in AnalysisErrors :
       state' = [state EXCEPT !.isProcessing = FALSE, !.error = error]
  /\ analysisTasks' = RemoveAt(analysisTasks, i)

\* the uuids of the components that the state, the session and the runs in
\* flight hold
UsedComponentIds ==
  Range(state.recognizedComponents) \cup Range(editSession.originalComponents)
    \cup Range(editSession.currentComponents)
    \cup UNION {Range(t.components) : t \in Range(analysisTasks)}

\* the components analyzeIsometric returns, n of them: a component is the
\* uuid that componentsWithIds gives it, a new one in every run
RecognizedComponents(n) == NewIds(UsedComponentIds, n)

\* analyzeIsometric resolves: components are published and seeded
AnalysisRecognized ==
  /\ UNCHANGED <<ops, modal, page, fileReaders>>
  /\ \E i \in DOMAIN analysisTasks : \E n \in 0..MaxComponents :
       /\ analysisTasks[i].pc = "recognition"
       /\ state' = [state EXCEPT !.recognizedComponents = RecognizedComponents(n)]
       /\ stepStates' = [stepStates EXCEPT !.recognition = "completed",
                                           !.errorDetection = "loading"]
       /\ editSession' = [editSession EXCEPT
             !.originalComponents = RecognizedComponents(n),
             !.currentComponents = RecognizedComponents(n)]
       /\ currentStep' = IDENTIFY_ERRORS
       /\ analysisTasks' = [analysisTasks EXCEPT
             ![i].pc = "detection",
             ![i].components = RecognizedComponents(n)]
       /\ lastOp' = Op("startAnalysis", "recognized")
       /\ UNCHANGED <<chatMessages, isStreamingChat, chatInstanceRef,
                      pendingChatActions, isRegenerating, chatTasks, regenTasks>>

\* analyzeIsometric rejects
AnalysisRecognitionFails ==
  /\ UNCHANGED <<ops, modal, page, fileReaders>>
  /\ \E i \in DOMAIN analysisTasks :
       /\ analysisTasks[i].pc = "recognition"
       /\ AnalysisCatch(i)
       /\ lastOp' = Op("startAnalysis", "recognitionFailed")
       /\ UNCHANGED <<currentStep, stepStates, chatMessages, isStreamingChat,
                      chatInstanceRef, pendingChatActions, editSession,
                      isRegenerating, chatTasks, regenTasks>>

\* the findings detectDesignErrors returns, n of them, with new uuids
DetectedErrors(n) ==
  [k \in 1..n |-> DesignError(NewErrorIds(n)[k], "detected", FALSE, FALSE, "none")]

\* detectDesignErrors resolves: the flushSync block seeds the session; with
\* no error found the handler runs on to the await of generateUpdatedDrawing
AnalysisDetected ==
  /\ UNCHANGED <<ops, modal, page, fileReaders>>
  /\ \E i \in DOMAIN analysisTasks : \E n \in 0..MaxDetect :
       /\ analysisTasks[i].pc = "detection"
       /\ LET errors == DetectedErrors(n) IN
          /\ state' = [state EXCEPT !.detectedErrors = errors]
          /\ stepStates' = [stepStates EXCEPT
                !.errorDetection = "completed",
                !.generation = IF n = 0 THEN "loading" ELSE @]
          /\ editSession' = [editSession EXCEPT !.originalErrors = errors,
                                                !.currentErrors = errors,
                                                !.hasUnsavedChanges = FALSE,
                                                !.changeLog = <<>>]
          /\ currentStep' = IF n = 0 THEN GENERATE_UPDATED ELSE currentStep
          /\ analysisTasks' = [analysisTasks EXCEPT
                ![i].pc = IF n = 0 THEN "generation" ELSE "annotation",
                ![i].errors = errors]
       /\ lastOp' = Op("startAnalysis", "detected")
       /\ UNCHANGED <<chatMessages, isStreamingChat, chatInstanceRef,
                      pendingChatActions, isRegenerating, chatTasks, regenTasks>>

\* detectDesignErrors rejects
AnalysisDetectionFails ==
  /\ UNCHANGED <<ops, modal, page, fileReaders>>
  /\ \E i \in DOMAIN analysisTasks :
       /\ analysisTasks[i].pc = "detection"
       /\ AnalysisCatch(i)
       /\ lastOp' = Op("startAnalysis", "detectionFailed")
       /\ UNCHANGED <<currentStep, stepStates, chatMessages, isStreamingChat,
                      chatInstanceRef, pendingChatActions, editSession,
                      isRegenerating, chatTasks, regenTasks>>

\* generateAnnotatedDrawing settles; a rejection is caught and does not stop
\* the run
AnalysisAnnotated ==
  /\ UNCHANGED <<ops, modal, page, fileReaders>>
  /\ \E i \in DOMAIN analysisTasks : \E ok \in BOOLEAN :
       /\ analysisTasks[i].pc = "annotation"
       /\ LET img == IF ok THEN <<analysisTasks[i].errors>> ELSE Null IN
          /\ state' = IF ok THEN [state EXCEPT !.annotatedImage = img] ELSE state
          /\ analysisTasks' = [analysisTasks EXCEPT ![i].pc = "generation",
                                                    ![i].annotated = img]
       /\ stepStates' = [stepStates EXCEPT !.generation = "loading"]
       /\ currentStep' = GENERATE_UPDATED
       /\ lastOp' = Op("startAnalysis", IF ok THEN "annotated" ELSE "annotationFailed")
       /\ UNCHANGED <<chatMessages, isStreamingChat, chatInstanceRef,
                      pendingChatActions, editSession, isRegenerating, chatTasks,
                      regenTasks>>

\* generateUpdatedDrawing resolves: the corrected image is published and the
\* chat session is created.  What follows the await of sendImageContext only
\* logs, so the invocation is over for the state.
AnalysisGenerated ==
  /\ UNCHANGED <<ops, modal, page, fileReaders>>
  /\ \E i \in DOMAIN analysisTasks :
       /\ analysisTasks[i].pc = "generation"
       /\ state' = [state EXCEPT !.updatedImage = <<analysisTasks[i].errors>>,
                                 !.isProcessing = FALSE]
       /\ stepStates' = [stepStates EXCEPT !.generation = "completed"]
       /\ chatInstanceRef' = TRUE
       /\ analysisTasks' = RemoveAt(analysisTasks, i)
       /\ lastOp' = Op("startAnalysis", "completed")
       /\ UNCHANGED <<currentStep, chatMessages, isStreamingChat,
                      pendingChatActions, editSession, isRegenerating, chatTasks,
                      regenTasks>>

\* generateUpdatedDrawing rejects
AnalysisGenerationFails ==
  /\ UNCHANGED <<ops, modal, page, fileReaders>>
  /\ \E i \in DOMAIN analysisTasks :
       /\ analysisTasks[i].pc = "generation"
       /\ AnalysisCatch(i)
       /\ lastOp' = Op("startAnalysis", "generationFailed")
       /\ UNCHANGED <<currentStep, stepStates, chatMessages, isStreamingChat,
                      chatInstanceRef, pendingChatActions, editSession,
                      isRegenerating, chatTasks, regenTasks>>

\* the form of ErrorEditModal after a render with the prop error: the effect
\* on [error] runs when the prop has changed and loads the finding, or the
\* empty form; else the form stays as it was left
FormOf(error) ==
  IF error = Null /\ editingError = Null THEN formData ELSE error

\* reset without setPendingChatActions([]).  Not the code; C17 must tell it
\* from reset.
resetKeepingQueue ==
  /\ ops < MaxOps
  /\ ops' = ops + 1
  /\ AnalysisPageShown
  /\ UNCHANGED <<isEditMode, page, fileReaders>>
  /\ editingError' = Null
  /\ formData' = FormOf(Null)
  /\ ResetShown
  /\ state' = EmptyState
  /\ currentStep' = UPLOAD
  /\ stepStates' = IdleSteps
  /\ chatMessages' = <<>>
  /\ chatInstanceRef' = FALSE
  /\ editSession' = EmptySession
  /\ lastOp' = Op("reset", "ok")
  /\ UNCHANGED <<pendingChatActions, isStreamingChat, isRegenerating,
                 analysisTasks, chatTasks, regenTasks>>

\* the reset handler (Reset Workspace, the trash button, Dismiss)
reset ==
  /\ ops < MaxOps
  /\ ops' = ops + 1
  /\ AnalysisPageShown
  /\ UNCHANGED <<isEditMode, page, fileReaders>>
  /\ editingError' = Null
  /\ formData' = FormOf(Null)
  /\ ResetShown
  /\ state' = EmptyState
  /\ currentStep' = UPLOAD
  /\ stepStates' = IdleSteps
  /\ chatMessages' = <<>>
  /\ chatInstanceRef' = FALSE
  /\ pendingChatActions' = <<>>
  /\ editSession' = EmptySession
  /\ lastOp' = Op("reset", "ok")
  /\ UNCHANGED <<isStreamingChat, isRegenerating, analysisTasks, chatTasks,
                 regenTasks>>

\* ------------------------------------------------------------------- chat
\* handleSendChatMessage without the isStreaming check of the chat form.
\* Not the code; C24 must tell it from handleSendChatMessage.
handleSendChatMessageWhileStreaming ==
  /\ ops < MaxOps
  /\ ops' = ops + 1
  /\ AnalysisPageShown
  /\ UNCHANGED <<modal, page, fileReaders>>
  /\ chatInstanceRef
  /\ chatMessages' = Append(chatMessages, ChatMessage("user", 0, "undefined"))
  /\ isStreamingChat' = TRUE
  /\ chatTasks' = Append(chatTasks, [currentErrors |-> editSession.currentErrors])
  /\ lastOp' = Op("handleSendChatMessage", "sent")
  /\ UNCHANGED <<state, currentStep, stepStates, chatInstanceRef,
                 pendingChatActions, editSession, isRegenerating,
                 analysisTasks, regenTasks>>

\* handleSendChatMessage up to its await; the closure keeps the edit session
\* of the render it was created in, which handleFunctionCall reads later
handleSendChatMessage ==
  /\ ops < MaxOps
  /\ ops' = ops + 1
  /\ AnalysisPageShown
  /\ UNCHANGED <<modal, page, fileReaders>>
  /\ ~isStreamingChat
  /\ chatInstanceRef
  /\ chatMessages' = Append(chatMessages, ChatMessage("user", 0, "undefined"))
  /\ isStreamingChat' = TRUE
  /\ chatTasks' = Append(chatTasks, [currentErrors |-> editSession.currentErrors])
  /\ lastOp' = Op("handleSendChatMessage", "sent")
  /\ UNCHANGED <<state, currentStep, stepStates, chatInstanceRef,
                 pendingChatActions, editSession, isRegenerating,
                 analysisTasks, regenTasks>>

\* showConfirmation: the messages to append and the actions to enqueue
showConfirmation(action) ==
  [msgs |-> <<ChatMessage("system", action.id, "undefined")>>,
   acts |-> <<action>>, out |-> "proposed"]

\* the reply of handleFunctionCall when it enqueues nothing
NotFoundReply ==
  [msgs |-> <<ChatMessage("model", 0, "undefined")>>, acts |-> <<>>,
   out |-> "notProposed"]

\* the findings a chat call proposes to add, n of them, with generated ids
ProposedErrors(n) ==
  [k \in 1..n |-> DesignError(NewErrorIds(n)[k], "typed", TRUE, FALSE, "user")]

\* { ...existingError, ...updates }: a field that updates carries replaces
\* the one of existingError; a field that updates does not carry is null
Spread(existingError, updates) ==
  [f \in DOMAIN existingError |->
     IF f \in DOMAIN updates /\ Len(updates[f]) > 0 THEN updates[f][1]
     ELSE existingError[f]]

\* a field that an object may carry with a value of S, or not carry
Optional(S) == {Null} \cup {<<v>> : v \in S}

\* the args.updates of an edit_error_node call: any object; what the model
\* tells apart are the fields of a finding it carries (isModified is set
\* after the spread, whatever updates carries)
EditUpdates(ids) ==
  {updates \in [id : Optional(ids), description : Optional(Descriptions),
                isNew : Optional(BOOLEAN),
                createdBy : Optional({"user", "ai"})] :
     Cardinality({f \in DOMAIN updates : Len(updates[f]) > 0})
       <= MaxUpdateFields}

\* the updates of the calls that read none
NoUpdates ==
  [id |-> Null, description |-> Null, isNew |-> Null, createdBy |-> Null]

\* handleFunctionCall, as run by the closure of an earlier render whose
\* editSession.currentErrors was closureErrors.  name is the function called;
\* errorId, updates (of an edit) and n (the number of findings of a bulk add)
\* are its arguments.
handleFunctionCall(name, errorId, updates, n, closureErrors) ==
  LET actionId == NewActionId
      existing == FindById(closureErrors, errorId)
  IN  CASE name = "add_error_node" ->
             showConfirmation(PendingErrorAction(actionId, "add",
                                                 ProposedErrors(1)))
        [] name = "edit_error_node" ->
             IF existing = Null THEN NotFoundReply
             ELSE showConfirmation(PendingErrorAction(actionId, "edit",
                 <<[Spread(existing[1], updates) EXCEPT !.isModified = TRUE]>>))
        [] name = "delete_error_node" ->
             IF existing = Null THEN NotFoundReply
             ELSE showConfirmation(PendingErrorAction(actionId, "delete", existing))
        [] name = "bulk_add_errors" ->
             showConfirmation(PendingErrorAction(actionId, "bulk-add",
                                                 ProposedErrors(n)))
        [] OTHER -> NotFoundReply

\* the function calls sendMessage can resolve with (arguments a function
\* does not read are fixed)
FunctionCalls(closureErrors) ==
  {[name |-> name, errorId |-> UnknownErrorId,
    updates |-> NoUpdates, n |-> 0] :
      name \in {"add_error_node", "unknown"}}
  \cup {[name |-> "bulk_add_errors", errorId |-> UnknownErrorId,
         updates |-> NoUpdates, n |-> n] : n \in 0..MaxBulk}
  \cup {[name |-> "delete_error_node", errorId |-> errorId,
         updates |-> NoUpdates, n |-> 0] :
           errorId \in Ids(closureErrors) \cup Ids(editSession.currentErrors)
                         \cup {UnknownErrorId}}
  \cup {[name |-> "edit_error_node", errorId |-> errorId,
         updates |-> updates, n |-> 0] :
           errorId \in Ids(closureErrors) \cup Ids(editSession.currentErrors)
                         \cup {UnknownErrorId},
           updates \in EditUpdates(Ids(closureErrors)
                                      \cup Ids(editSession.currentErrors)
                                      \cup {UnknownErrorId})}

\* the replies of sendMessage the model tells apart: functionCalls is empty
\* or holds one call, text is empty or not
ChatReplies(closureErrors) ==
  {[functionCalls |-> functionCalls, text |-> text] :
     functionCalls \in {<<>>} \cup {<<c>> : c \in FunctionCalls(closureErrors)},
     text \in BOOLEAN}

\* sendMessage resolves: the function call, if there is one, is handled, then
\* the text, if there is one, is appended
ChatReplied ==
  /\ UNCHANGED <<ops, modal, page, fileReaders>>
  /\ \E i \in DOMAIN chatTasks :
     \E result \in ChatReplies(chatTasks[i].currentErrors) :
       /\ LET r == IF Len(result.functionCalls) > 0
                   THEN LET c == result.functionCalls[1]
                        IN  handleFunctionCall(c.name, c.errorId, c.updates, c.n,
                                               chatTasks[i].currentErrors)
                   ELSE [msgs |-> <<>>, acts |-> <<>>,
                         out |-> IF result.text THEN "text" ELSE "empty"]
              textMsg == IF result.text
                         THEN <<ChatMessage("model", 0, "undefined")>>
                         ELSE <<>>
          IN /\ chatMessages' = chatMessages \o r.msgs \o textMsg
             /\ pendingChatActions' = pendingChatActions \o r.acts
             /\ lastOp' = Op("handleSendChatMessage", r.out)
       /\ isStreamingChat' = FALSE
       /\ chatTasks' = RemoveAt(chatTasks, i)
       /\ UNCHANGED <<state, currentStep, stepStates, chatInstanceRef,
                      editSession, isRegenerating, analysisTasks, regenTasks>>

\* sendMessage rejects
ChatFails ==
  /\ UNCHANGED <<ops, modal, page, fileReaders>>
  /\ \E i \in DOMAIN chatTasks :
         /\ chatMessages' = Append(chatMessages, ChatMessage("model", 0, "undefined"))
       /\ isStreamingChat' = FALSE
       /\ chatTasks' = RemoveAt(chatTasks, i)
       /\ lastOp' = Op("handleSendChatMessage", "failed")
       /\ UNCHANGED <<state, currentStep, stepStates, chatInstanceRef,
                      pendingChatActions, editSession, isRegenerating,
                      analysisTasks, regenTasks>>

\* msg.actionId === actionId ? { ...msg, confirmed } : msg
MarkMessages(msgs, actionId, confirmed) ==
  [k \in DOMAIN msgs |->
     IF msgs[k].actionId = actionId THEN [msgs[k] EXCEPT !.confirmed = confirmed]
     ELSE msgs[k]]

\* the action ids a caller can name: queued, shown in the transcript, or
\* unknown (a message without an action has no actionId to match)
ActionIds == ((UsedActionIds \ {0}) \cup {NewActionId})

\* ConfirmedSession that logs one entry for a whole bulk add.  Not the code;
\* C5 must tell it from ConfirmedSession.
ConfirmedSessionLoggingOnce(action) ==
  LET errs == action.errors
      changeIds == NewChangeIds(1)
      first == IF errs = <<>> THEN Null ELSE <<errs[1]>>
  IN  [editSession EXCEPT
         !.currentErrors =
            CASE action.type \in {"add", "bulk-add"} -> @ \o errs
              [] action.type = "edit" -> MapReplace(@, first[1].id, first[1])
              [] action.type = "delete" -> FilterOutId(@, first[1].id),
         !.changeLog = Append(@,
            ChangeAction(changeIds[1], action.type,
                         IF first = Null THEN UnknownErrorId ELSE first[1].id,
                         Null, first, "chat-ai")),
         !.hasUnsavedChanges = TRUE]

\* ConfirmedSession with the add entries of a bulk add logged last error
\* first.  Not the code; C21 must tell it from ConfirmedSession.
ConfirmedSessionLoggingReversed(action) ==
  LET errs == action.errors
      n == Len(errs)
      changeIds == NewChangeIds(n)
      adds == [k \in DOMAIN errs |->
                 ChangeAction(changeIds[k], "add", errs[n + 1 - k].id, Null,
                              <<errs[n + 1 - k]>>, "chat-ai")]
      first == errs[1]
  IN  CASE action.type \in {"add", "bulk-add"} ->
             [editSession EXCEPT !.currentErrors = @ \o errs,
                                 !.changeLog = @ \o adds,
                                 !.hasUnsavedChanges = TRUE]
        [] action.type = "edit" ->
             [editSession EXCEPT
                !.currentErrors = MapReplace(@, first.id, first),
                !.changeLog = Append(@,
                   ChangeAction(changeIds[1], "edit", first.id,
                                FindById(editSession.currentErrors, first.id),
                                <<first>>, "chat-ai")),
                !.hasUnsavedChanges = TRUE]
        [] action.type = "delete" ->
             [editSession EXCEPT
                !.currentErrors = FilterOutId(@, first.id),
                !.changeLog = Append(@,
                   ChangeAction(changeIds[1], "delete", first.id, <<first>>,
                                Null, "chat-ai")),
                !.hasUnsavedChanges = TRUE]

\* the edit session after a confirmed action is applied
ConfirmedSession(action) ==
  LET errs == action.errors
      changeIds == NewChangeIds(Len(errs))
      adds == [k \in DOMAIN errs |->
                 ChangeAction(changeIds[k], "add", errs[k].id, Null,
                              <<errs[k]>>, "chat-ai")]
      first == errs[1]
  IN  CASE action.type \in {"add", "bulk-add"} ->
             [editSession EXCEPT !.currentErrors = @ \o errs,
                                 !.changeLog = @ \o adds,
                                 !.hasUnsavedChanges = TRUE]
        [] action.type = "edit" ->
             [editSession EXCEPT
                !.currentErrors = MapReplace(@, first.id, first),
                !.changeLog = Append(@,
                   ChangeAction(changeIds[1], "edit", first.id,
                                FindById(editSession.currentErrors, first.id),
                                <<first>>, "chat-ai")),
                !.hasUnsavedChanges = TRUE]
        [] action.type = "delete" ->
             [editSession EXCEPT
                !.currentErrors = FilterOutId(@, first.id),
                !.changeLog = Append(@,
                   ChangeAction(changeIds[1], "delete", first.id, <<first>>,
                                Null, "chat-ai")),
                !.hasUnsavedChanges = TRUE]

handleConfirmChatAction ==
  /\ ops < MaxOps
  /\ ops' = ops + 1
  /\ AnalysisPageShown
  /\ UNCHANGED <<modal, page, fileReaders>>
  /\ \E actionId \in ActionIds :
       LET found == FindById(pendingChatActions, actionId) IN
       IF found = Null
       THEN /\ lastOp' = OpOn("handleConfirmChatAction", actionId, "notFound")
            /\ UNCHANGED <<state, currentStep, stepStates, chatMessages,
                           isStreamingChat, chatInstanceRef, pendingChatActions,
                           editSession, isRegenerating, analysisTasks, chatTasks,
                           regenTasks>>
       ELSE LET action == found[1]
                after == ConfirmedSession(action)
            IN /\ editSession' = after
               /\ chatMessages' = MarkMessages(chatMessages, actionId, "true")
               /\ pendingChatActions' = FilterOutId(pendingChatActions, actionId)
               /\ lastOp' = OpOn("handleConfirmChatAction", actionId,
                                 action.type)
               /\ UNCHANGED <<state, currentStep, stepStates, isStreamingChat,
                              chatInstanceRef, isRegenerating, analysisTasks,
                              chatTasks, regenTasks>>

\* DeniedQueue that drops every queued action.  Not the code; C6 must tell it
\* from DeniedQueue.
DeniedQueueCleared(actionId) == <<>>

\* the queue after handleDenyChatAction(actionId)
DeniedQueue(actionId) == FilterOutId(pendingChatActions, actionId)

handleDenyChatAction ==
  /\ ops < MaxOps
  /\ ops' = ops + 1
  /\ AnalysisPageShown
  /\ UNCHANGED <<modal, page, fileReaders>>
  /\ \E actionId \in ActionIds :
       /\ chatMessages' = Append(MarkMessages(chatMessages, actionId, "false"),
                                 ChatMessage("model", 0, "undefined"))
       /\ pendingChatActions' = DeniedQueue(actionId)
       /\ lastOp' = OpOn("handleDenyChatAction", actionId,
                         IF actionId \in Ids(pendingChatActions) THEN "denied"
                         ELSE "notFound")
       /\ UNCHANGED <<state, currentStep, stepStates, isStreamingChat,
                      chatInstanceRef, editSession, isRegenerating, analysisTasks,
                      chatTasks, regenTasks>>

\* ------------------------------------------------------- manual editing
\* SavedSession writing the new list to originalErrors as well.  Not the
\* code; C19 must tell it from SavedSession.
SavedSessionIntoBaseline(error) ==
  LET before == FindById(editSession.currentErrors, error.id)
      isNew == before = Null
      saved == IF isNew
               THEN Append(editSession.currentErrors,
                           [error EXCEPT !.isNew = TRUE, !.createdBy = "user"])
               ELSE MapReplace(editSession.currentErrors, error.id,
                               [error EXCEPT !.isModified = TRUE])
  IN  [editSession EXCEPT
         !.currentErrors = saved,
         !.originalErrors = saved,
         !.changeLog = Append(@,
            ChangeAction(NewChangeIds(1)[1], IF isNew THEN "add" ELSE "edit",
                         error.id, IF isNew THEN Null ELSE before, <<error>>,
                         "manual")),
         !.hasUnsavedChanges = TRUE]

\* the edit session after handleSaveError(error)
SavedSession(error) ==
  LET before == FindById(editSession.currentErrors, error.id)
      isNew == before = Null
  IN  [editSession EXCEPT
         !.currentErrors =
            IF isNew
            THEN Append(@, [error EXCEPT !.isNew = TRUE, !.createdBy = "user"])
            ELSE MapReplace(@, error.id, [error EXCEPT !.isModified = TRUE]),
         !.changeLog = Append(@,
            ChangeAction(NewChangeIds(1)[1], IF isNew THEN "add" ELSE "edit",
                         error.id, IF isNew THEN Null ELSE before, <<error>>,
                         "manual")),
         !.hasUnsavedChanges = TRUE]

\* handleAddError: the Add Issue button opens the modal without a finding
handleAddError ==
  /\ ops < MaxOps
  /\ ops' = ops + 1
  /\ AnalysisPageShown
  /\ UNCHANGED <<page, fileReaders>>
  /\ FindingsShown
  /\ isEditMode' = TRUE
  /\ editingError' = Null
  /\ formData' = FormOf(Null)
  /\ lastOp' = Op("handleAddError", "opened")
  /\ UNCHANGED <<state, currentStep, stepStates, chatMessages,
                 isStreamingChat, chatInstanceRef, pendingChatActions,
                 editSession, isRegenerating, analysisTasks, chatTasks,
                 regenTasks>>

\* handleEditError(error): the Edit button of a finding of the list opens the
\* modal on that finding
handleEditError ==
  /\ ops < MaxOps
  /\ ops' = ops + 1
  /\ AnalysisPageShown
  /\ UNCHANGED <<page, fileReaders>>
  /\ FindingsShown
  /\ \E error \in Range(editSession.currentErrors) :
       /\ isEditMode' = TRUE
       /\ editingError' = <<error>>
       /\ formData' = FormOf(<<error>>)
       /\ lastOp' = OpOn("handleEditError", error.id, "opened")
  /\ UNCHANGED <<state, currentStep, stepStates, chatMessages,
                 isStreamingChat, chatInstanceRef, pendingChatActions,
                 editSession, isRegenerating, analysisTasks, chatTasks,
                 regenTasks>>

\* onClose of the modal (its X and Cancel buttons)
onClose ==
  /\ ops < MaxOps
  /\ ops' = ops + 1
  /\ AnalysisPageShown
  /\ UNCHANGED <<page, fileReaders>>
  /\ isEditMode
  /\ isEditMode' = FALSE
  /\ editingError' = Null
  /\ formData' = FormOf(Null)
  /\ lastOp' = Op("onClose", "closed")
  /\ UNCHANGED <<state, currentStep, stepStates, chatMessages,
                 isStreamingChat, chatInstanceRef, pendingChatActions,
                 editSession, isRegenerating, analysisTasks, chatTasks,
                 regenTasks>>

\* what the form holds at a submit: the finding or the saved form it was
\* loaded with, or the empty form with its generated id
Form ==
  IF formData = Null THEN EmptyForm(NewErrorIds(1)[1]) ELSE formData[1]

\* the description a submit can find in the form: one of the texts, or
\* nothing
TypedDescriptions == Descriptions \cup {""}

\* handleSubmit of the modal, which calls handleSaveError with the form data
\* unless a required field is empty; handleSaveError closes the modal
handleSaveError ==
  /\ ops < MaxOps
  /\ ops' = ops + 1
  /\ AnalysisPageShown
  /\ UNCHANGED <<page, fileReaders>>
  /\ isEditMode
  /\ \E description \in TypedDescriptions :
       LET error == [Form EXCEPT !.description = description]
           isNew == FindById(editSession.currentErrors, error.id) = Null
       IN  IF description = ""
           THEN /\ lastOp' = Op("handleSaveError", "invalid")
                /\ UNCHANGED <<editSession, modal>>
           ELSE /\ editSession' = SavedSession(error)
                /\ isEditMode' = FALSE
                /\ editingError' = Null
                /\ formData' = IF editingError = Null THEN <<error>> ELSE Null
                /\ lastOp' = OpOn("handleSaveError", error.id,
                                  IF isNew THEN "add" ELSE "edit")
  /\ UNCHANGED <<state, currentStep, stepStates, chatMessages,
                 isStreamingChat, chatInstanceRef, pendingChatActions,
                 isRegenerating, analysisTasks, chatTasks, regenTasks>>

\* DeletedSession without the change action.  Not the code; C29 must tell
\* it from DeletedSession.
DeletedSessionUnlogged(error) ==
  [editSession EXCEPT
     !.currentErrors = FilterOutId(@, error.id),
     !.hasUnsavedChanges = TRUE]

\* the edit session after the delete of the finding error is logged
DeletedSession(error) ==
  [editSession EXCEPT
     !.currentErrors = FilterOutId(@, error.id),
     !.changeLog = Append(@, ChangeAction(NewChangeIds(1)[1], "delete",
                                          error.id, <<error>>, Null, "manual")),
     !.hasUnsavedChanges = TRUE]

\* handleDeleteError(errorId); confirmed is the answer to window.confirm
handleDeleteError ==
  /\ ops < MaxOps
  /\ ops' = ops + 1
  /\ AnalysisPageShown
  /\ UNCHANGED <<modal, page, fileReaders>>
  /\ \E errorId \in Ids(editSession.currentErrors) \cup {UnknownErrorId} :
     \E confirmed \in BOOLEAN :
       LET found == FindById(editSession.currentErrors, errorId) IN
       /\ FindingsShown
       /\ found = Null => confirmed
       /\ IF found = Null \/ ~confirmed
          THEN /\ lastOp' = OpOn("handleDeleteError", errorId,
                                 IF found = Null THEN "notFound"
                                 ELSE "cancelled")
               /\ UNCHANGED editSession
          ELSE /\ editSession' = DeletedSession(found[1])
               /\ lastOp' = OpOn("handleDeleteError", errorId, "deleted")
       /\ UNCHANGED <<state, currentStep, stepStates, chatMessages,
                      isStreamingChat, chatInstanceRef, pendingChatActions,
                      isRegenerating, analysisTasks, chatTasks, regenTasks>>

\* RestoredSession that marks the finding it puts back as new.  Not the code;
\* C4 must tell it from RestoredSession.
RestoredSessionAsNew(change) ==
  LET restoredError == [change.beforeState[1] EXCEPT !.isNew = TRUE] IN
  [editSession EXCEPT
     !.currentErrors = Append(@, restoredError),
     !.changeLog = Append(@, ChangeAction(NewChangeIds(1)[1], "restore",
                                          restoredError.id, Null,
                                          <<restoredError>>, "manual")),
     !.hasUnsavedChanges = TRUE]

\* RestoredSession that turns the delete entry into the restore entry
\* instead of appending one.  Not the code; C22 must tell it from
\* RestoredSession.
RestoredSessionAmending(change) ==
  LET restoredError == change.beforeState[1] IN
  [editSession EXCEPT
     !.currentErrors = Append(@, restoredError),
     !.changeLog = [k \in DOMAIN @ |->
                      IF @[k].id = change.id
                      THEN ChangeAction(change.id, "restore", restoredError.id,
                                        Null, <<restoredError>>, "manual")
                      ELSE @[k]],
     !.hasUnsavedChanges = TRUE]

\* the edit session after the delete entry change is restored
RestoredSession(change) ==
  LET restoredError == change.beforeState[1] IN
  [editSession EXCEPT
     !.currentErrors = Append(@, restoredError),
     !.changeLog = Append(@, ChangeAction(NewChangeIds(1)[1], "restore",
                                          restoredError.id, Null,
                                          <<restoredError>>, "manual")),
     !.hasUnsavedChanges = TRUE]

\* RestoreRefused without the check of the entry's type.  Not the code; C9
\* must tell it from RestoreRefused.
RestoreRefusedIgnoringType(found) ==
  found = Null \/ found[1].beforeState = Null

\* the early return of handleRestoreError; found is the result of the find
RestoreRefused(found) ==
  found = Null \/ found[1].type # "delete" \/ found[1].beforeState = Null

\* handleRestoreError(changeActionId)
handleRestoreError ==
  /\ ops < MaxOps
  /\ ops' = ops + 1
  /\ AnalysisPageShown
  /\ UNCHANGED <<modal, page, fileReaders>>
  /\ \E changeActionId \in Ids(editSession.changeLog) \cup {UnknownChangeId} :
       LET found == FindById(editSession.changeLog, changeActionId) IN
       /\ IF RestoreRefused(found)
          THEN /\ lastOp' = OpOn("handleRestoreError", changeActionId,
                                 "ignored")
               /\ UNCHANGED editSession
          ELSE /\ editSession' = RestoredSession(found[1])
               /\ lastOp' = OpOn("handleRestoreError", changeActionId,
                                 "restored")
       /\ UNCHANGED <<state, currentStep, stepStates, chatMessages,
                      isStreamingChat, chatInstanceRef, pendingChatActions,
                      isRegenerating, analysisTasks, chatTasks, regenTasks>>

\* DiscardedSession that forgets to clear the change log.  Not the code; C3
\* must tell it from DiscardedSession.
DiscardedSessionKeepingLog(session) ==
  [session EXCEPT !.currentErrors = session.originalErrors,
                  !.currentComponents = session.originalComponents,
                  !.hasUnsavedChanges = FALSE]

\* what handleDiscardChanges, once confirmed, makes of the edit session
DiscardedSession(session) ==
  [session EXCEPT !.currentErrors = session.originalErrors,
                  !.currentComponents = session.originalComponents,
                  !.changeLog = <<>>,
                  !.hasUnsavedChanges = FALSE]

\* handleDiscardChanges; confirmed is the answer to window.confirm
handleDiscardChanges ==
  /\ ops < MaxOps
  /\ ops' = ops + 1
  /\ AnalysisPageShown
  /\ UNCHANGED <<modal, page, fileReaders>>
  /\ \E confirmed \in BOOLEAN :
       /\ RegenerateSectionShown
       /\ editSession' = IF confirmed THEN DiscardedSession(editSession)
                         ELSE editSession
       /\ lastOp' = Op("handleDiscardChanges",
                       IF confirmed THEN "discarded" ELSE "cancelled")
       /\ UNCHANGED <<state, currentStep, stepStates, chatMessages,
                      isStreamingChat, chatInstanceRef, pendingChatActions,
                      isRegenerating, analysisTasks, chatTasks, regenTasks>>

\* ---------------------------------------------------------- regeneration
\* the Regenerate Drawing button is rendered and not disabled
RegenerateEnabled == RegenerateSectionShown /\ ~isRegenerating

\* the validation of handleRegenerateDrawing: no errors to regenerate with
NothingToRegenerate(modifiedErrors) == Len(modifiedErrors) = 0

\* handleRegenerateDrawing up to its first await (generateAnnotatedDrawing),
\* or to its return: at once when there is no original image, and after
\* setIsRegenerating(true) and setIsRegenerating(false) when there is nothing
\* to regenerate with.  The handler reads neither isRegenerating nor
\* hasUnsavedChanges.
handleRegenerateDrawing ==
  /\ ops < MaxOps
  /\ ops' = ops + 1
  /\ AnalysisPageShown
  /\ UNCHANGED <<modal, page, fileReaders>>
  /\ IF ~state.originalImage
     THEN /\ lastOp' = Op("handleRegenerateDrawing", "noImage")
          /\ UNCHANGED <<isRegenerating, regenTasks>>
     ELSE LET modifiedErrors == editSession.currentErrors IN
          IF NothingToRegenerate(modifiedErrors)
          THEN /\ lastOp' = Op("handleRegenerateDrawing", "nothingToRegenerate")
               /\ isRegenerating' = FALSE
               /\ UNCHANGED regenTasks
          ELSE /\ isRegenerating' = TRUE
               /\ regenTasks' = Append(regenTasks,
                     [pc |-> "annotated", modifiedErrors |-> modifiedErrors,
                      annotatedImage |-> Null])
               /\ lastOp' = Op("handleRegenerateDrawing", "started")
  /\ UNCHANGED <<state, currentStep, stepStates, chatMessages, isStreamingChat,
                 chatInstanceRef, pendingChatActions, editSession,
                 analysisTasks, chatTasks>>

\* a click on the Regenerate Drawing button, which is there while the session
\* has unsaved changes and is disabled while isRegenerating: the only call of
\* handleRegenerateDrawing in the App
RegenerateClicked ==
  /\ RegenerateEnabled
  /\ handleRegenerateDrawing

\* RegenAnnotated with a partial commit: the annotated image is published as
\* soon as it is there.  Not the code; C1 must tell it from RegenAnnotated.
RegenAnnotatedPublishing ==
  /\ UNCHANGED <<ops, modal, page, fileReaders>>
  /\ \E i \in DOMAIN regenTasks :
       /\ regenTasks[i].pc = "annotated"
       /\ regenTasks' = [regenTasks EXCEPT
             ![i].pc = "updated",
             ![i].annotatedImage = <<regenTasks[i].modifiedErrors>>]
       /\ state' = [state EXCEPT
             !.annotatedImage = <<regenTasks[i].modifiedErrors>>]
       /\ lastOp' = Op("handleRegenerateDrawing", "annotated")
       /\ UNCHANGED <<currentStep, stepStates, chatMessages,
                      isStreamingChat, chatInstanceRef, pendingChatActions,
                      editSession, isRegenerating, analysisTasks, chatTasks>>

\* RegenAnnotated reading currentErrors again for the second call instead of
\* the modifiedErrors it took at the start.  Not the code; C20 must tell it
\* from RegenAnnotated.
RegenAnnotatedRereading ==
  /\ UNCHANGED <<ops, modal, page, fileReaders>>
  /\ \E i \in DOMAIN regenTasks :
       /\ regenTasks[i].pc = "annotated"
       /\ regenTasks' = [regenTasks EXCEPT
             ![i].pc = "updated",
             ![i].annotatedImage = <<regenTasks[i].modifiedErrors>>,
             ![i].modifiedErrors = editSession.currentErrors]
       /\ lastOp' = Op("handleRegenerateDrawing", "annotated")
       /\ UNCHANGED <<state, currentStep, stepStates, chatMessages,
                      isStreamingChat, chatInstanceRef, pendingChatActions,
                      editSession, isRegenerating, analysisTasks, chatTasks>>

\* generateAnnotatedDrawing resolves; the handler goes on to await
\* generateUpdatedDrawing
RegenAnnotated ==
  /\ UNCHANGED <<ops, modal, page, fileReaders>>
  /\ \E i \in DOMAIN regenTasks :
       /\ regenTasks[i].pc = "annotated"
       /\ regenTasks' = [regenTasks EXCEPT
             ![i].pc = "updated",
             ![i].annotatedImage = <<regenTasks[i].modifiedErrors>>]
       /\ lastOp' = Op("handleRegenerateDrawing", "annotated")
       /\ UNCHANGED <<state, currentStep, stepStates, chatMessages,
                      isStreamingChat, chatInstanceRef, pendingChatActions,
                      editSession, isRegenerating, analysisTasks, chatTasks>>

\* RegenCatch without the finally block.  Not the code; C23 must tell it
\* from RegenCatch.
RegenCatchWithoutFinally(i) ==
  /\ regenTasks' = RemoveAt(regenTasks, i)
  /\ UNCHANGED <<state, currentStep, stepStates, chatMessages, isStreamingChat,
                 chatInstanceRef, pendingChatActions, editSession,
                 isRegenerating, analysisTasks, chatTasks>>

\* RegenCatch that throws the uncommitted changes away.  Not the code; C28
\* must tell it from RegenCatch.
RegenCatchDiscarding(i) ==
  /\ isRegenerating' = FALSE
  /\ regenTasks' = RemoveAt(regenTasks, i)
  /\ editSession' = [editSession EXCEPT
        !.currentErrors = editSession.originalErrors,
        !.changeLog = <<>>,
        !.hasUnsavedChanges = FALSE]
  /\ UNCHANGED <<state, currentStep, stepStates, chatMessages, isStreamingChat,
                 chatInstanceRef, pendingChatActions, analysisTasks, chatTasks>>

\* the catch and finally blocks of handleRegenerateDrawing
RegenCatch(i) ==
  /\ isRegenerating' = FALSE
  /\ regenTasks' = RemoveAt(regenTasks, i)
  /\ UNCHANGED <<state, currentStep, stepStates, chatMessages, isStreamingChat,
                 chatInstanceRef, pendingChatActions, editSession,
                 analysisTasks, chatTasks>>

\* generateAnnotatedDrawing rejects
RegenAnnotationFails ==
  /\ UNCHANGED <<ops, modal, page, fileReaders>>
  /\ \E i \in DOMAIN regenTasks :
       /\ regenTasks[i].pc = "annotated"
       /\ RegenCatch(i)
       /\ lastOp' = Op("handleRegenerateDrawing", "annotationFailed")

\* generateUpdatedDrawing rejects
RegenUpdateFails ==
  /\ UNCHANGED <<ops, modal, page, fileReaders>>
  /\ \E i \in DOMAIN regenTasks :
       /\ regenTasks[i].pc = "updated"
       /\ RegenCatch(i)
       /\ lastOp' = Op("handleRegenerateDrawing", "updateFailed")

\* CommittedState that publishes the images and not the list of errors.  Not
\* the code; C30 must tell it from CommittedState.
CommittedStateImagesOnly(task) ==
  [state EXCEPT !.annotatedImage = task.annotatedImage,
                !.updatedImage = <<task.modifiedErrors>>]

\* the commit of a regeneration: what "Step 3" sets once both calls succeeded
CommittedState(task) ==
  [state EXCEPT !.annotatedImage = task.annotatedImage,
                !.updatedImage = <<task.modifiedErrors>>,
                !.detectedErrors = task.modifiedErrors]

\* CommittedSession that commits the findings of the moment instead of the
\* ones the regeneration was started with.  Not the code; C7 must tell it
\* from CommittedSession.
CommittedSessionOfCurrent(task) ==
  [editSession EXCEPT !.originalErrors = editSession.currentErrors,
                      !.hasUnsavedChanges = FALSE,
                      !.changeLog = <<>>]

\* CommittedSession that leaves currentErrors as it is.  Not the code; C26
\* must tell it from CommittedSession.
CommittedSessionBaselineOnly(task) ==
  [editSession EXCEPT !.originalErrors = task.modifiedErrors,
                      !.hasUnsavedChanges = FALSE,
                      !.changeLog = <<>>]

\* the edit session the commit of a regeneration sets
CommittedSession(task) ==
  [editSession EXCEPT !.originalErrors = task.modifiedErrors,
                      !.currentErrors = task.modifiedErrors,
                      !.hasUnsavedChanges = FALSE,
                      !.changeLog = <<>>]

\* generateUpdatedDrawing resolves: commit, then await sendImageContext when
\* there is a chat session, else run to the end
RegenUpdated ==
  /\ UNCHANGED <<ops, modal, page, fileReaders>>
  /\ \E i \in DOMAIN regenTasks :
       /\ regenTasks[i].pc = "updated"
       /\ state' = CommittedState(regenTasks[i])
       /\ editSession' = CommittedSession(regenTasks[i])
       /\ pendingChatActions' = <<>>
       /\ IF chatInstanceRef
          THEN /\ regenTasks' = [regenTasks EXCEPT ![i].pc = "context"]
               /\ UNCHANGED isRegenerating
          ELSE /\ regenTasks' = RemoveAt(regenTasks, i)
               /\ isRegenerating' = FALSE
       /\ lastOp' = Op("handleRegenerateDrawing", "committed")
       /\ UNCHANGED <<currentStep, stepStates, chatMessages, isStreamingChat,
                      chatInstanceRef, analysisTasks, chatTasks>>

\* sendImageContext settles (a rejection is caught): the finally block
RegenContextSent ==
  /\ UNCHANGED <<ops, modal, page, fileReaders>>
  /\ \E i \in DOMAIN regenTasks :
       /\ regenTasks[i].pc = "context"
       /\ isRegenerating' = FALSE
       /\ regenTasks' = RemoveAt(regenTasks, i)
       /\ lastOp' = Op("handleRegenerateDrawing", "done")
       /\ UNCHANGED <<state, currentStep, stepStates, chatMessages,
                      isStreamingChat, chatInstanceRef, pendingChatActions,
                      editSession, analysisTasks, chatTasks>>

\* ------------------------------------------------------------ navigation
\* navigateToInfo: the link of the Layout sets the hash
navigateToInfo ==
  /\ ops < MaxOps
  /\ ops' = ops + 1
  /\ AnalysisPageShown
  /\ hash' = "#/info"
  /\ lastOp' = Op("navigateToInfo", "ok")
  /\ UNCHANGED <<state, currentStep, stepStates, chatMessages,
                 isStreamingChat, chatInstanceRef, pendingChatActions,
                 editSession, isRegenerating, analysisTasks, chatTasks,
                 regenTasks, modal, currentView, fileReaders>>

\* navigateToAnalysis: the back button of the InfoPage sets the hash
navigateToAnalysis ==
  /\ ops < MaxOps
  /\ ops' = ops + 1
  /\ currentView = "info"
  /\ hash' = "#/"
  /\ lastOp' = Op("navigateToAnalysis", "ok")
  /\ UNCHANGED <<state, currentStep, stepStates, chatMessages,
                 isStreamingChat, chatInstanceRef, pendingChatActions,
                 editSession, isRegenerating, analysisTasks, chatTasks,
                 regenTasks, modal, currentView, fileReaders>>

\* a click on one of the <a href="#"> links of the Layout (Archive, Terms,
\* Privacy, Support), which both pages render: the hash becomes empty
hashLink ==
  /\ ops < MaxOps
  /\ ops' = ops + 1
  /\ hash' = ""
  /\ lastOp' = Op("hashLink", "ok")
  /\ UNCHANGED <<state, currentStep, stepStates, chatMessages,
                 isStreamingChat, chatInstanceRef, pendingChatActions,
                 editSession, isRegenerating, analysisTasks, chatTasks,
                 regenTasks, modal, currentView, fileReaders>>

\* handleHashChange: the hashchange event of a changed hash is handled.  The
\* view changes, which unmounts the modal or mounts it again: a mounted modal
\* starts with the form of its prop error
handleHashChange ==
  /\ UNCHANGED <<ops, fileReaders, hash>>
  /\ ViewOf(hash) # currentView
  /\ currentView' = ViewOf(hash)
  /\ formData' = editingError
  /\ UNCHANGED <<isEditMode, editingError>>
  /\ lastOp' = Op("handleHashChange", ViewOf(hash))
  /\ UNCHANGED <<state, currentStep, stepStates, chatMessages,
                 isStreamingChat, chatInstanceRef, pendingChatActions,
                 editSession, isRegenerating, analysisTasks, chatTasks,
                 regenTasks>>

\* ------------------------------------------------------------------ spec
Next ==
  \/ handleFileUpload
  \/ FileLoaded
  \/ startAnalysis
  \/ AnalysisRecognized
  \/ AnalysisRecognitionFails
  \/ AnalysisDetected
  \/ AnalysisDetectionFails
  \/ AnalysisAnnotated
  \/ AnalysisGenerated
  \/ AnalysisGenerationFails
  \/ reset
  \/ handleSendChatMessage
  \/ ChatReplied
  \/ ChatFails
  \/ handleConfirmChatAction
  \/ handleDenyChatAction
  \/ handleAddError
  \/ handleEditError
  \/ onClose
  \/ handleSaveError
  \/ handleDeleteError
  \/ handleDiscardChanges
  \/ RegenerateClicked
  \/ RegenAnnotated
  \/ RegenAnnotationFails
  \/ RegenUpdateFails
  \/ RegenUpdated
  \/ RegenContextSent
  \/ navigateToInfo
  \/ navigateToAnalysis
  \/ hashLink
  \/ handleHashChange

Spec == Init /\ [][Next]_vars

\* The App with callers of its handlers that the rendering does not give:
\* handleRestoreError is defined in the App and passed to no element, and
\* handleRegenerateDrawing is called by the Regenerate Drawing button only,
\* which is not there on a session without unsaved changes and is disabled
\* while isRegenerating.  HandlerSpec is for what is said about the handlers
\* in the cases the rendering keeps away from them.
HandlerNext ==
  \/ Next
  \/ handleRestoreError
  \/ handleRegenerateDrawing

HandlerSpec == Init /\ [][HandlerNext]_vars

\* an awaited call of a regeneration settles: generateAnnotatedDrawing,
\* generateUpdatedDrawing or sendImageContext resolves or rejects
RegenSettles ==
  \/ RegenAnnotated
  \/ RegenAnnotationFails
  \/ RegenUpdated
  \/ RegenUpdateFails
  \/ RegenContextSent

\* the program when every call a regeneration awaits settles at some time
FairSpec == Spec /\ WF_vars(RegenSettles)

TypeOK == ops \in 0..MaxOps

\* ---------------------------------------------------------------- claims
\* the step just taken belongs to handler name and ended as out
Did(name, out) == lastOp'.op = name /\ lastOp'.out = out

\* C1: commit atomicity of a regeneration.  No step of a regeneration whose
\* annotated-artifact call succeeds and whose corrected-artifact call fails
\* (its start, the annotated artifact arriving, the failure) changes the edit
\* session (current findings, baseline, ledger, dirty), the published state
\* (images, detected errors) or the pending proposals; it starts on a dirty
\* session and the failure ends the regeneration.
C1_CommitAtomicity ==
  [][(\/ Did("handleRegenerateDrawing", "started")
      \/ Did("handleRegenerateDrawing", "annotated")
      \/ Did("handleRegenerateDrawing", "updateFailed"))
     => /\ editSession' = editSession
        /\ state' = state
        /\ pendingChatActions' = pendingChatActions
        /\ Did("handleRegenerateDrawing", "started")
             => editSession.hasUnsavedChanges
        /\ Did("handleRegenerateDrawing", "updateFailed")
             => ~isRegenerating']_vars

\* a regeneration has just failed at the corrected-artifact call, after its
\* annotated-artifact call succeeded, on a session that is still dirty
C1_Witness ==
  /\ lastOp = Op("handleRegenerateDrawing", "updateFailed")
  /\ editSession.hasUnsavedChanges
  /\ editSession.changeLog # <<>>
  /\ ~isRegenerating

\* C2: uniqueness of ids.  In every reachable state no two findings of
\* currentErrors share an id.
C2_UniqueIds ==
  \A i, j \in DOMAIN editSession.currentErrors :
    editSession.currentErrors[i].id = editSession.currentErrors[j].id => i = j

\* the last element of a non-empty sequence
Last(s) == s[Len(s)]

\* C3: discard returns to the baseline.  A confirmed handleDiscardChanges
\* leaves currentErrors equal to the baseline (which it keeps), the change
\* log empty and hasUnsavedChanges false, whatever edits came before; a
\* second discard would change nothing, and the Discard button is gone.
C3_DiscardToBaseline ==
  [][Did("handleDiscardChanges", "discarded")
     => /\ editSession'.currentErrors = editSession.originalErrors
        /\ editSession'.originalErrors = editSession.originalErrors
        /\ editSession'.changeLog = <<>>
        /\ ~editSession'.hasUnsavedChanges
        /\ DiscardedSession(editSession') = editSession'
        /\ ~RegenerateSectionShown']_vars

\* changes to a seeded session have just been discarded
C3_Witness ==
  /\ lastOp = Op("handleDiscardChanges", "discarded")
  /\ editSession.originalErrors # <<>>
  /\ editSession.currentErrors = editSession.originalErrors

\* C4: delete and restore are inverse.  A delete removes the finding it
\* names and logs it as the entry's beforeState; a restore of that entry
\* right after the delete puts back a finding equal to the deleted one, so
\* that the findings are the same set as before the delete (the restored one
\* comes last).
C4_DeleteRestoreInverse ==
  [][/\ Did("handleDeleteError", "deleted")
          => LET found == FindById(editSession.currentErrors, lastOp'.arg) IN
             /\ found # Null
             /\ Last(editSession'.changeLog).type = "delete"
             /\ Last(editSession'.changeLog).beforeState = found
             /\ lastOp'.arg \notin Ids(editSession'.currentErrors)
             /\ Range(editSession.currentErrors)
                  = Range(editSession'.currentErrors) \cup {found[1]}
     /\ ( /\ lastOp.op = "handleDeleteError"
          /\ lastOp.out = "deleted"
          /\ Did("handleRestoreError", "restored")
          /\ lastOp'.arg = Last(editSession.changeLog).id )
          => LET deleted == Last(editSession.changeLog).beforeState[1] IN
             /\ Last(editSession'.currentErrors) = deleted
             /\ Range(editSession'.currentErrors)
                  = Range(editSession.currentErrors) \cup {deleted}]_vars

\* a finding was deleted and restored from the entry of that delete, and now
\* comes after a finding it came before
C4_Witness ==
  /\ lastOp.op = "handleRestoreError"
  /\ lastOp.out = "restored"
  /\ Len(editSession.changeLog) >= 2
  /\ editSession.changeLog[Len(editSession.changeLog) - 1].type = "delete"
  /\ editSession.changeLog[Len(editSession.changeLog) - 1].id = lastOp.arg
  /\ Len(editSession.currentErrors) = 2
  /\ editSession.currentErrors[2].id < editSession.currentErrors[1].id

\* C5: confirm consumes the proposal.  handleConfirmChatAction on a queued
\* action removes it from the queue and appends one change action for an
\* add, an edit or a delete and one per finding for a bulk add; on an id
\* that is not queued (a second confirm) it changes nothing.
C5_ConfirmConsumes ==
  [][lastOp'.op = "handleConfirmChatAction"
     => LET found == FindById(pendingChatActions, lastOp'.arg) IN
        IF found = Null
        THEN /\ lastOp'.out = "notFound"
             /\ editSession' = editSession
             /\ pendingChatActions' = pendingChatActions
             /\ chatMessages' = chatMessages
        ELSE /\ lastOp'.arg \notin Ids(pendingChatActions')
             /\ Len(editSession'.changeLog)
                  = Len(editSession.changeLog)
                    + (IF found[1].type = "bulk-add" THEN Len(found[1].errors)
                       ELSE 1)]_vars

\* an action that was confirmed before has just been confirmed a second time
C5_Witness ==
  /\ lastOp.op = "handleConfirmChatAction"
  /\ lastOp.out = "notFound"
  /\ \E m \in Range(chatMessages) :
       m.actionId = lastOp.arg /\ m.confirmed = "true"
  /\ editSession.changeLog # <<>>

\* C6: deny does not touch the session.  handleDenyChatAction on a queued
\* action leaves the edit session (current findings, baseline, change log,
\* hasUnsavedChanges) as it is and removes that action, and only that one,
\* from the queue.
C6_DenyKeepsSession ==
  [][Did("handleDenyChatAction", "denied")
     => LET Other(a) == a.id # lastOp'.arg IN
        /\ editSession' = editSession
        /\ pendingChatActions' = SelectSeq(pendingChatActions, Other)
        /\ Len(pendingChatActions') = Len(pendingChatActions) - 1]_vars

\* a queued action has just been denied while another one stays queued
C6_Witness ==
  /\ lastOp.op = "handleDenyChatAction"
  /\ lastOp.out = "denied"
  /\ pendingChatActions # <<>>
  /\ lastOp.arg \notin Ids(pendingChatActions)

\* C7: a successful regeneration commits.  When the corrected-artifact call
\* of a regeneration resolves (the annotated one has resolved before), the
\* baseline and the current findings both become the findings the
\* regeneration was started with, the change log is emptied,
\* hasUnsavedChanges is false and the queue of pending actions is empty.
C7_RegenerationCommits ==
  [][Did("handleRegenerateDrawing", "committed")
     => \E i \in DOMAIN regenTasks :
          /\ regenTasks[i].pc = "updated"
          /\ editSession'.originalErrors = regenTasks[i].modifiedErrors
          /\ editSession'.currentErrors = regenTasks[i].modifiedErrors
          /\ state'.detectedErrors = regenTasks[i].modifiedErrors
          /\ editSession'.changeLog = <<>>
          /\ ~editSession'.hasUnsavedChanges
          /\ pendingChatActions' = <<>>]_vars

\* a regeneration has just committed while a proposal was waiting for its
\* answer: the proposal is shown unanswered and is queued no more
C7_Witness ==
  /\ lastOp = Op("handleRegenerateDrawing", "committed")
  /\ pendingChatActions = <<>>
  /\ editSession.originalErrors # <<>>
  /\ \E m \in Range(chatMessages) :
       m.role = "system" /\ m.confirmed = "undefined"

\* C8: single-flight regeneration.  An invocation of handleRegenerateDrawing
\* starts its external calls only when no other regeneration is in flight:
\* one that comes while another is in flight is turned down and starts none,
\* so that at most one regeneration is in flight at any time.
C8_SingleFlight ==
  [][Len(regenTasks') > Len(regenTasks) => regenTasks = <<>>]_vars

\* C9: a restore that is refused changes nothing.  handleRestoreError with
\* the id of an entry that is not of type delete, or whose beforeState is
\* null, or of no entry, returns at once: the edit session is unchanged.
C9_RestoreRefused ==
  [][( /\ lastOp'.op = "handleRestoreError"
       /\ LET found == FindById(editSession.changeLog, lastOp'.arg) IN
          \/ found = Null
          \/ found[1].type # "delete"
          \/ found[1].beforeState = Null )
     => /\ lastOp'.out = "ignored"
        /\ editSession' = editSession
        /\ state' = state
        /\ pendingChatActions' = pendingChatActions]_vars

\* a restore of an edit entry has just been refused
C9_Witness ==
  /\ lastOp.op = "handleRestoreError"
  /\ lastOp.out = "ignored"
  /\ \E c \in Range(editSession.changeLog) :
       c.id = lastOp.arg /\ c.type = "edit" /\ c.beforeState # Null

\* C10: nothing to regenerate.  An invocation of handleRegenerateDrawing on
\* a session without unsaved changes, or with currentErrors empty, is turned
\* down: it starts no external call and changes neither the edit session,
\* the published state nor the pending proposals.
C10_NothingToRegenerate ==
  [][( /\ lastOp'.op = "handleRegenerateDrawing"
       /\ lastOp'.out \in {"started", "nothingToRegenerate", "noImage"}
       /\ \/ ~editSession.hasUnsavedChanges
          \/ editSession.currentErrors = <<>> )
     => /\ regenTasks' = regenTasks
        /\ editSession' = editSession
        /\ state' = state
        /\ pendingChatActions' = pendingChatActions]_vars

\* C11: a delete of an absent finding changes nothing.  handleDeleteError
\* with an id that no finding of currentErrors has, and
\* handleConfirmChatAction of a delete proposal whose finding is no more in
\* currentErrors, append no change action and leave hasUnsavedChanges as it
\* is.
C11_DeleteAbsent ==
  [][( \/ /\ lastOp'.op = "handleDeleteError"
          /\ lastOp'.arg \notin Ids(editSession.currentErrors)
       \/ /\ lastOp'.op = "handleConfirmChatAction"
          /\ LET found == FindById(pendingChatActions, lastOp'.arg) IN
             /\ found # Null
             /\ found[1].type = "delete"
             /\ found[1].errors[1].id \notin Ids(editSession.currentErrors) )
     => /\ editSession'.changeLog = editSession.changeLog
        /\ editSession'.hasUnsavedChanges = editSession.hasUnsavedChanges]_vars

\* C12: an unknown action id changes nothing.  handleConfirmChatAction and
\* handleDenyChatAction with an id that no queued action has leave the edit
\* session, the queue of pending actions and the chat messages as they are.
C12_UnknownActionId ==
  [][( /\ lastOp'.op \in {"handleConfirmChatAction", "handleDenyChatAction"}
       /\ lastOp'.arg \notin Ids(pendingChatActions) )
     => /\ editSession' = editSession
        /\ pendingChatActions' = pendingChatActions
        /\ chatMessages' = chatMessages]_vars

\* C13: in every reachable state hasUnsavedChanges is TRUE exactly when the
\* change log holds at least one change action.
C13_DirtyIffLogged ==
  editSession.hasUnsavedChanges <=> editSession.changeLog # <<>>

\* C14: every change action of the change log has the shape of its type: an
\* add has no beforeState and an afterState, a delete has a beforeState and
\* no afterState, an edit has both, and a restore has no beforeState and as
\* afterState the beforeState of an earlier delete entry of the log.
C14_LedgerShape ==
  \A j \in DOMAIN editSession.changeLog :
    LET c == editSession.changeLog[j] IN
    /\ c.type = "add" => c.beforeState = Null /\ c.afterState # Null
    /\ c.type = "delete" => c.beforeState # Null /\ c.afterState = Null
    /\ c.type = "edit" => c.beforeState # Null /\ c.afterState # Null
    /\ c.type = "restore" =>
         /\ c.beforeState = Null
         /\ \E k \in 1..(j - 1) :
              /\ editSession.changeLog[k].type = "delete"
              /\ editSession.changeLog[k].beforeState = c.afterState

\* C15: a run of startAnalysis that fails at analyzeIsometric or at
\* detectDesignErrors leaves nothing of itself in the edit session: once its
\* catch block has run, no component and no finding that the run received is
\* among the session's components and errors.
C15_NoPartialSeed ==
  [][( \/ Did("startAnalysis", "recognitionFailed")
       \/ Did("startAnalysis", "detectionFailed") )
     => \A i \in DOMAIN analysisTasks :
          analysisTasks' = RemoveAt(analysisTasks, i)
          => /\ Range(analysisTasks[i].components)
                  \cap ( Range(editSession'.originalComponents)
                         \cup Range(editSession'.currentComponents) ) = {}
             /\ Ids(analysisTasks[i].errors)
                  \cap ( Ids(editSession'.originalErrors)
                         \cup Ids(editSession'.currentErrors) ) = {}]_vars

\* C16: the seeding step of startAnalysis (detectDesignErrors resolved) makes
\* originalErrors and currentErrors the detected errors, empties the change
\* log and clears hasUnsavedChanges, and it never runs on a session whose
\* hasUnsavedChanges is TRUE.
C16_SeedOnCleanSession ==
  [][Did("startAnalysis", "detected")
     => /\ ~editSession.hasUnsavedChanges
        /\ editSession'.originalErrors = state'.detectedErrors
        /\ editSession'.currentErrors = state'.detectedErrors
        /\ editSession'.changeLog = <<>>
        /\ ~editSession'.hasUnsavedChanges]_vars

\* C17: right after reset the edit session is empty (no original and no
\* current errors, no components, no change action, hasUnsavedChanges FALSE),
\* no chat action is pending and the workflow step is UPLOAD.
C17_ResetEmpties ==
  lastOp.op = "reset"
  => /\ editSession.originalErrors = <<>>
     /\ editSession.currentErrors = <<>>
     /\ editSession.originalComponents = <<>>
     /\ editSession.currentComponents = <<>>
     /\ editSession.changeLog = <<>>
     /\ ~editSession.hasUnsavedChanges
     /\ pendingChatActions = <<>>
     /\ currentStep = UPLOAD

\* reset has just emptied a session that held findings: a chat request sent
\* before it still carries them
C17_Witness ==
  /\ lastOp.op = "reset"
  /\ \E t \in Range(chatTasks) : t.currentErrors # <<>>

\* C18: a function call of the chat only proposes.  The step that queues a
\* pending action leaves originalErrors, currentErrors, the change log and
\* hasUnsavedChanges as they are, and an edit or a delete is queued only for
\* a finding that currentErrors holds.
C18_ProposalOnly ==
  [][Did("handleSendChatMessage", "proposed")
     => /\ editSession'.currentErrors = editSession.currentErrors
        /\ editSession'.originalErrors = editSession.originalErrors
        /\ editSession'.changeLog = editSession.changeLog
        /\ editSession'.hasUnsavedChanges = editSession.hasUnsavedChanges
        /\ LET action == Last(pendingChatActions') IN
           action.type \in {"edit", "delete"}
           => action.errors[1].id \in Ids(editSession.currentErrors)]_vars

\* C19: originalErrors changes only in the seeding step of startAnalysis, in
\* the commit of a regeneration and in reset; saving, deleting, restoring,
\* confirming, denying, discarding and a regeneration that fails or is
\* refused leave it as it is.
C19_BaselineFrame ==
  [][editSession'.originalErrors # editSession.originalErrors
     => \/ Did("startAnalysis", "detected")
        \/ Did("handleRegenerateDrawing", "committed")
        \/ Did("reset", "ok")]_vars

\* a chat proposal has been confirmed on a seeded session, and currentErrors
\* now differs from originalErrors
C19_Witness ==
  /\ lastOp.op = "handleConfirmChatAction"
  /\ lastOp.out # "notFound"
  /\ editSession.originalErrors # <<>>
  /\ editSession.currentErrors # editSession.originalErrors

\* C20: a regeneration makes its two calls one after the other with one list
\* of errors.  The list is currentErrors at the call of
\* handleRegenerateDrawing; it stays the same while the regeneration is in
\* flight, whatever happens to currentErrors; generateUpdatedDrawing is
\* awaited only once generateAnnotatedDrawing has resolved with the image of
\* that list; and the committed images are both made from it.
C20_OneSnapshotInSequence ==
  [][/\ Did("handleRegenerateDrawing", "started")
        => /\ Last(regenTasks').modifiedErrors = editSession.currentErrors
           /\ Last(regenTasks').pc = "annotated"
     /\ Len(regenTasks') >= Len(regenTasks)
        => \A i \in DOMAIN regenTasks :
             /\ regenTasks'[i].modifiedErrors = regenTasks[i].modifiedErrors
             /\ (regenTasks'[i].pc = "updated" /\ regenTasks[i].pc # "updated")
                => /\ regenTasks[i].pc = "annotated"
                   /\ Did("handleRegenerateDrawing", "annotated")
                   /\ regenTasks'[i].annotatedImage
                        = <<regenTasks[i].modifiedErrors>>
     /\ Did("handleRegenerateDrawing", "committed")
        => \E i \in DOMAIN regenTasks :
             /\ regenTasks[i].pc = "updated"
             /\ regenTasks' = RemoveAt(regenTasks, i)
                  \/ regenTasks' = [regenTasks EXCEPT ![i].pc = "context"]
             /\ state'.annotatedImage = <<regenTasks[i].modifiedErrors>>
             /\ state'.updatedImage = <<regenTasks[i].modifiedErrors>>]_vars

\* generateUpdatedDrawing is awaited with the list taken at the start while
\* currentErrors has changed since
C20_Witness ==
  \E i \in DOMAIN regenTasks :
    /\ regenTasks[i].pc = "updated"
    /\ regenTasks[i].annotatedImage = <<regenTasks[i].modifiedErrors>>
    /\ regenTasks[i].modifiedErrors # editSession.currentErrors

\* C21: confirming a bulk add of N errors appends the N errors to
\* currentErrors in the order of the proposal and appends N add entries to
\* the change log in that order, the i-th entry for the i-th error.
C21_BulkAddInOrder ==
  [][lastOp'.op = "handleConfirmChatAction"
     => LET found == FindById(pendingChatActions, lastOp'.arg) IN
        (found # Null /\ found[1].type = "bulk-add")
        => LET errs == found[1].errors
               old == Len(editSession.changeLog)
           IN  /\ editSession'.currentErrors = editSession.currentErrors \o errs
               /\ Len(editSession'.changeLog) = old + Len(errs)
               /\ SubSeq(editSession'.changeLog, 1, old) = editSession.changeLog
               /\ \A k \in DOMAIN errs :
                    LET c == editSession'.changeLog[old + k] IN
                    /\ c.type = "add"
                    /\ c.targetId = errs[k].id
                    /\ c.afterState = <<errs[k]>>]_vars

\* a bulk add of two errors has just been confirmed: the change log ends
\* with two add entries for two different errors
C21_Witness ==
  /\ lastOp.op = "handleConfirmChatAction"
  /\ lastOp.out = "bulk-add"
  /\ Len(editSession.changeLog) >= 2
  /\ LET n == Len(editSession.changeLog) IN
     /\ editSession.changeLog[n].type = "add"
     /\ editSession.changeLog[n - 1].type = "add"
     /\ editSession.changeLog[n].targetId # editSession.changeLog[n - 1].targetId
     /\ editSession.changeLog[n].source = "chat-ai"

\* C22: the change log only grows between clears.  A step that is not the
\* seeding step of startAnalysis, the commit of a regeneration, a discard
\* or reset keeps every change action of the log, unchanged and in place, as
\* a prefix of the new log; handleRestoreError appends one restore entry
\* and the delete entry it reverses stays as it was.
C22_AppendOnly ==
  [][~( \/ Did("startAnalysis", "detected")
        \/ Did("handleRegenerateDrawing", "committed")
        \/ Did("handleDiscardChanges", "discarded")
        \/ Did("reset", "ok") )
     => LET old == editSession.changeLog
            new == editSession'.changeLog
        IN  /\ Len(new) >= Len(old)
            /\ SubSeq(new, 1, Len(old)) = old
            /\ Did("handleRestoreError", "restored")
               => /\ Len(new) = Len(old) + 1
                  /\ Last(new).type = "restore"
                  /\ \E k \in DOMAIN old :
                       /\ old[k].id = lastOp'.arg
                       /\ old[k].type = "delete"
                       /\ new[k] = old[k]]_vars

\* a deleted error has just been restored: the log holds the delete entry
\* and, after it, the restore entry for the same error
C22_Witness ==
  /\ lastOp = OpOn("handleRestoreError", lastOp.arg, "restored")
  /\ \E k \in DOMAIN editSession.changeLog :
       /\ editSession.changeLog[k].id = lastOp.arg
       /\ editSession.changeLog[k].type = "delete"
       /\ k < Len(editSession.changeLog)
       /\ Last(editSession.changeLog).type = "restore"
       /\ Last(editSession.changeLog).targetId = editSession.changeLog[k].targetId

\* C23: a regeneration always comes to an end.  When the calls it awaits
\* settle, isRegenerating, once TRUE, becomes FALSE again, whether the
\* regeneration fails at either call or commits.
C23_RegenerationEnds ==
  isRegenerating ~> ~isRegenerating

\* a regeneration has just failed at its first call and isRegenerating is
\* FALSE again
C23_Witness ==
  /\ lastOp = Op("handleRegenerateDrawing", "annotationFailed")
  /\ ~isRegenerating
  /\ regenTasks = <<>>

C25_ChatAddProvenance ==
  [][lastOp'.op = "handleConfirmChatAction"
     => LET found == FindById(pendingChatActions, lastOp'.arg) IN
        (found # Null /\ found[1].type \in {"add", "bulk-add"})
        => \A k \in DOMAIN editSession'.currentErrors :
             k > Len(editSession.currentErrors)
             => /\ editSession'.currentErrors[k].createdBy = "ai"
                /\ editSession'.currentErrors[k].isNew]_vars

\* C26: currentErrors differs from originalErrors only while
\* hasUnsavedChanges is TRUE: in every reachable state with
\* hasUnsavedChanges FALSE the two lists are equal.
C26_CleanMeansBaseline ==
  ~editSession.hasUnsavedChanges
  => editSession.currentErrors = editSession.originalErrors

\* a regeneration has committed a list that holds an added error: the
\* session is clean and the added error is in both lists
C26_Witness ==
  /\ lastOp = Op("handleRegenerateDrawing", "committed")
  /\ ~editSession.hasUnsavedChanges
  /\ \E k \in DOMAIN editSession.currentErrors :
       editSession.currentErrors[k].isNew
  /\ editSession.currentErrors = editSession.originalErrors

\* C27: a regeneration that is still running when reset is called does not
\* fill the session again.  In a state that reset has emptied (state and
\* edit session are the empty ones and no startAnalysis is running that
\* could seed), no step of handleRegenerateDrawing, whatever its outcome,
\* changes the state or the edit session.
C27_NoCommitAfterReset ==
  [][( /\ lastOp'.op = "handleRegenerateDrawing"
       /\ state = EmptyState
       /\ editSession = EmptySession
       /\ analysisTasks = <<>> )
     => /\ state' = EmptyState
        /\ editSession' = EmptySession]_vars

\* C28: a change made to currentErrors while a regeneration is in flight is
\* lost when the regeneration commits and kept when it fails.  When the
\* list the regeneration took differs from currentErrors, the commit sets
\* currentErrors and originalErrors to the list it took and empties the
\* change log, and a failure leaves currentErrors, the change log and
\* hasUnsavedChanges as they are.
C28_MidFlightChange ==
  [][\A i \in DOMAIN regenTasks :
       regenTasks[i].modifiedErrors # editSession.currentErrors
       => /\ (Did("handleRegenerateDrawing", "committed")
              /\ regenTasks[i].pc = "updated")
             => /\ editSession'.currentErrors = regenTasks[i].modifiedErrors
                /\ editSession'.originalErrors = regenTasks[i].modifiedErrors
                /\ editSession'.currentErrors # editSession.currentErrors
                /\ editSession'.changeLog = <<>>
          /\ ( \/ Did("handleRegenerateDrawing", "annotationFailed")
               \/ Did("handleRegenerateDrawing", "updateFailed") )
             => /\ editSession'.currentErrors = editSession.currentErrors
                /\ editSession'.changeLog = editSession.changeLog
                /\ editSession'.hasUnsavedChanges
                     = editSession.hasUnsavedChanges]_vars

\* a regeneration has failed and the change made while it was in flight is
\* kept: the list is empty now, which it was not when the regeneration took
\* it, and the log and hasUnsavedChanges are as the change left them
C28_Witness ==
  /\ lastOp.op = "handleRegenerateDrawing"
  /\ lastOp.out \in {"annotationFailed", "updateFailed"}
  /\ editSession.currentErrors = <<>>
  /\ Len(editSession.changeLog) >= 2
  /\ editSession.hasUnsavedChanges
  /\ editSession.originalErrors # <<>>

\* the ids of a list of errors, in order
IdSeq(errs) == [k \in DOMAIN errs |-> errs[k].id]

\* the ids left by filtering id out of a list of ids
WithoutId(ids, id) ==
  LET keep == {k \in DOMAIN ids : ids[k] # id}
  IN  [j \in 1..Cardinality(keep) |-> ids[Nth(keep, j)]]

\* a list of ids after the first n change actions of log are replayed on it:
\* add and restore append targetId, delete filters it out, edit keeps the ids
RECURSIVE ReplayIds(_, _, _)
ReplayIds(ids, log, n) ==
  IF n = 0 THEN ids
  ELSE LET before == ReplayIds(ids, log, n - 1)
           c == log[n]
       IN  CASE c.type \in {"add", "restore"} -> Append(before, c.targetId)
             [] c.type = "delete" -> WithoutId(before, c.targetId)
             [] OTHER -> before

\* C29: the change log explains currentErrors.  In every reachable state the
\* ids of currentErrors are the ids that replaying the change log, in order,
\* on the ids of originalErrors gives: the same ids, as often and in the
\* same order.
C29_LedgerExplains ==
  IdSeq(editSession.currentErrors)
    = ReplayIds(IdSeq(editSession.originalErrors), editSession.changeLog,
                Len(editSession.changeLog))

\* a detected error was deleted and then restored: the log holds both
\* kinds of entry and currentErrors has the ids of originalErrors in another
\* order
C29_Witness ==
  /\ \E c \in Range(editSession.changeLog) : c.type = "delete"
  /\ \E c \in Range(editSession.changeLog) : c.type = "restore"
  /\ Len(editSession.originalErrors) >= 2
  /\ Len(editSession.currentErrors) = Len(editSession.originalErrors)
  /\ editSession.currentErrors[1].id # editSession.originalErrors[1].id

\* C30: the published list of errors is the baseline.  In every reachable
\* state state.detectedErrors equals originalErrors, so a change of
\* currentErrors that no regeneration has committed is not in it.
C30_PublishedIsBaseline ==
  state.detectedErrors = editSession.originalErrors

\* a detected error has been edited and nothing is committed: the published
\* list is still the baseline and differs from currentErrors
C30_Witness ==
  /\ lastOp.op = "handleSaveError"
  /\ lastOp.out = "edit"
  /\ state.detectedErrors # <<>>
  /\ editSession.currentErrors # state.detectedErrors
  /\ editSession.hasUnsavedChanges

====
